---- MODULE Spec2Model ----
(***************************************************************************)
(* A model of the df_anonymizer library (src/df_anonymizer): the table     *)
(* transforms (masking, perturbation, generalization, suppression,         *)
(* shuffling), the pseudonymization routine with its key_table.xlsx        *)
(* artifact, and the k-anonymity evaluator.                                *)
(*                                                                         *)
(* A pandas DataFrame is a record [index, data]: index is the sequence of  *)
(* row labels and data maps each column name to the sequence of its cells. *)
(* A cell is a record whose field k is the Python type of the object:      *)
(*   [k |-> "None"]              None                                      *)
(*   [k |-> "int",   v |-> n]    int / numpy integer                       *)
(*   [k |-> "float", v |-> t]    float, t = the value in thousandths       *)
(*   [k |-> "nan"]               float('nan') (a float instance)           *)
(*   [k |-> "str",   v |-> s]    str, s = the sequence of its characters   *)
(*   [k |-> "date",  v |-> d]    Timestamp, d = days since 1970-01-01      *)
(*   [k |-> "obj"]               any other object (a list, bytes, ...)     *)
(***************************************************************************)
EXTENDS Integers, Sequences, FiniteSets, TLC

VARIABLES
    df,        \* the caller's table object (the argument of every call)
    pre,       \* the value of df when the last call was made
    op,        \* the last call: its name and arguments
    ret,       \* what the last call returned
    err,       \* the exception the last call raised
    ncalls,    \* number of calls made so far
    pc,        \* pseudonymization: each caller's position in the routine
    loc,       \* pseudonymization: each caller's local variables
    file       \* the artifact key_table.xlsx in the working directory

vars == <<df, pre, op, ret, err, ncalls, pc, loc, file>>

----------------------------------------------------------------------------
(* Bounds *)

KMaxRows == 3
MMaxRows == 3
PMaxRows == 2
SMaxRows == 3
PsMaxCalls == 2
TMaxRows == 2

----------------------------------------------------------------------------
(* Cells *)

NoneCell == [k |-> "None"]
NaNCell == [k |-> "nan"]
ObjCell == [k |-> "obj"]
IntCell(n) == [k |-> "int", v |-> n]
FloatCell(t) == [k |-> "float", v |-> t]
StrCell(s) == [k |-> "str", v |-> s]
DateCell(d) == [k |-> "date", v |-> d]

\* the outcome of a call
NoRet == [t |-> "none"]
RetInt(n) == [t |-> "int", v |-> n]
RetTable(tb) == [t |-> "table", v |-> tb]
NoErr == [e |-> "none", site |-> "", wrg |-> {}]
Raise(e, site) == [e |-> e, site |-> site, wrg |-> {}]

----------------------------------------------------------------------------
(* Tables *)

Range(s) == {s[i] : i \in DOMAIN s}

RangeIndex(n) == [i \in 1..n |-> i - 1]

Columns(tb) == DOMAIN tb.data

NRows(tb) == Len(tb.index)

\* pd.DataFrame(data): a fresh frame with a RangeIndex
Frame(data, n) == [index |-> RangeIndex(n), data |-> data]

\* df[attr] = cont
SetColumn(tb, attr, cont) ==
    [tb EXCEPT !.data = [c \in DOMAIN tb.data \cup {attr} |->
                            IF c = attr THEN cont ELSE tb.data[c]]]

\* the sequences of length 0..n over S
SeqsUpTo(S, n) == UNION {[1..m -> S] : m \in 0..n}

\* the minimum of a non-empty set of integers
SetMin(S) == CHOOSE m \in S : \A x \in S : m <= x

\* the dtype pandas gives a column holding these cells
ColDtype(col) ==
    IF Len(col) = 0 THEN "object"
    ELSE IF \A i \in DOMAIN col : col[i].k = "int" THEN "int64"
    ELSE IF \A i \in DOMAIN col : col[i].k \in {"float", "nan"} THEN "float64"
    ELSE IF \A i \in DOMAIN col : col[i].k = "date" THEN "datetime64"
    ELSE "object"

\* a call o, made on the table as the caller built it, that leaves the
\* caller's table as newdf and ends with r or e
Call(o, newdf, r, e) ==
    /\ ncalls = 0
    /\ ncalls' = ncalls + 1
    /\ pre' = df
    /\ op' = o
    /\ df' = newdf
    /\ ret' = r
    /\ err' = e
    /\ UNCHANGED <<pc, loc, file>>

----------------------------------------------------------------------------
(* evaluation.py *)

\* Python's == and hash on scalars: an int and a float of the same numeric
\* value are one dictionary key (1 == 1.0); PyKey is the canonical key.
PyKey(c) == IF c.k = "int" THEN FloatCell(c.v * 1000) ELSE c

\* df[cols].values: the rows of the selected columns, as one array
Values(tb, cols) ==
    [i \in 1..NRows(tb) |-> [j \in 1..Len(cols) |-> tb.data[cols[j]][i]]]

\* tuple(row): a hashable tuple, compared element by element
TupleOf(row) == [j \in DOMAIN row |-> PyKey(row[j])]

\* collections.Counter(tuple_rows): one pass, counting each key
RECURSIVE CounterOf(_)
CounterOf(rows) ==
    IF rows = <<>> THEN <<>>
    ELSE LET init == CounterOf(SubSeq(rows, 1, Len(rows) - 1))
             key == rows[Len(rows)]
         IN IF key \in DOMAIN init
            THEN [init EXCEPT ![key] = @ + 1]
            ELSE (key :> 1) @@ init

\* set(quasi_identifier) - set(df.columns)
KMissingBug(tb, quasi_identifier) == Range(quasi_identifier)
WrgCol(tb, quasi_identifier) == Range(quasi_identifier) \ Columns(tb)

\* min(combination_counts.values())
KMinBug(counts) == counts[CHOOSE key \in DOMAIN counts : TRUE]
KMin(counts) == SetMin({counts[key] : key \in DOMAIN counts})

CalculateKAnonymity(quasi_identifier) ==
    LET o == [name |-> "calculateKAnonymity", attrs |-> quasi_identifier, arg |-> 0]
    IN IF \E i \in DOMAIN quasi_identifier : quasi_identifier[i] \notin Columns(df)
       THEN Call(o, df, NoRet, [e |-> "ValueError", site |-> "evaluation.py:37",
                                wrg |-> WrgCol(df, quasi_identifier)])
       ELSE LET tuple_rows == [i \in 1..NRows(df) |-> TupleOf(Values(df, quasi_identifier)[i])]
                combination_counts == CounterOf(tuple_rows)
            IN IF DOMAIN combination_counts = {}
               THEN \* min() of an empty sequence raises ValueError
                    Call(o, df, NoRet, Raise("ValueError", "builtins.min"))
               ELSE Call(o, df, RetInt(KMin(combination_counts)), NoErr)

----------------------------------------------------------------------------
(* Scanning a column: `for x in df[attr]: ... cont.append(...)` *)

CellOk(c) == [e |-> "none", site |-> "", v |-> c]
CellErr(e, site) == [e |-> e, site |-> site, v |-> NoneCell]

\* steps is the sequence of the outcomes of the loop body on each cell
\* the index of the first cell whose step raises, 0 when none does
FirstBad(steps) ==
    IF \E i \in DOMAIN steps : steps[i].e # "none"
    THEN SetMin({i \in DOMAIN steps : steps[i].e # "none"})
    ELSE 0

\* the exception raised by the first step that raises
FirstRaise(steps) == Raise(steps[FirstBad(steps)].e, steps[FirstBad(steps)].site)

\* the list cont built by a scan in which no step raises
Cont(steps) == [i \in DOMAIN steps |-> steps[i].v]

\* a scan that writes the cells it has transformed before it raises
PartialWriteBug(tb, attr, steps) ==
    SetColumn(tb, attr, [i \in DOMAIN steps |-> IF i < FirstBad(steps) THEN steps[i].v ELSE tb.data[attr][i]])

\* the caller's table after a scan that raised: cont is a local list and the
\* assignment df[attr] = cont after the loop is never reached
ScanRaised(tb, attr, steps) == tb

\* str(n) for an int
Digit(d) == <<"0", "1", "2", "3", "4", "5", "6", "7", "8", "9">>[d + 1]

RECURSIVE NatToStr(_)
NatToStr(n) == IF n < 10 THEN <<Digit(n)>> ELSE NatToStr(n \div 10) \o <<Digit(n % 10)>>

IntToStr(n) == IF n < 0 THEN <<"-">> \o NatToStr(0 - n) ELSE NatToStr(n)

\* str(x) for a float x of t thousandths: the shortest decimal that reads back
FracToStr(f) ==
    IF f % 100 = 0 THEN <<Digit(f \div 100)>>
    ELSE IF f % 10 = 0 THEN <<Digit(f \div 100), Digit((f \div 10) % 10)>>
    ELSE <<Digit(f \div 100), Digit((f \div 10) % 10), Digit(f % 10)>>

FloatToStr(t) ==
    LET a == IF t < 0 THEN 0 - t ELSE t
    IN (IF t < 0 THEN <<"-">> ELSE <<>>) \o NatToStr(a \div 1000) \o <<".">> \o FracToStr(a % 1000)

\* n * "*"
Stars(n) == [i \in 1..n |-> "*"]

----------------------------------------------------------------------------
(* masking.py *)

\* list(id_str)[0:-3] and list(id_str)[-3:]
AllButLast3(s) == IF Len(s) > 3 THEN SubSeq(s, 1, Len(s) - 3) ELSE <<>>
Last3Bug(s) == IF Len(s) > 3 THEN SubSeq(s, Len(s) - 3, Len(s)) ELSE s
Last3(s) == IF Len(s) > 3 THEN SubSeq(s, Len(s) - 2, Len(s)) ELSE s

\* one step of the loop of maskID (masking.py:34-41)
MaskIDCell(id) ==
    IF id.k = "None" THEN CellOk(id)
    ELSE IF id.k \notin {"int", "str"} THEN CellErr("TypeError", "masking.py:38")
    ELSE LET id_str == IF id.k = "int" THEN IntToStr(id.v) ELSE id.v
         IN CellOk(StrCell(Stars(Len(AllButLast3(id_str))) \o Last3(id_str)))

MaskID(attr) ==
    LET o == [name |-> "maskID", attrs |-> <<attr>>, arg |-> 0]
    IN IF attr \notin Columns(df)
       THEN Call(o, df, NoRet, Raise("KeyError", "masking.py:34"))
       ELSE LET steps == [i \in 1..NRows(df) |-> MaskIDCell(df.data[attr][i])]
            IN IF FirstBad(steps) # 0
               THEN Call(o, ScanRaised(df, attr, steps), NoRet, FirstRaise(steps))
               ELSE \* df[attr] = cont; return df
                    LET out == SetColumn(df, attr, Cont(steps))
                    IN Call(o, out, RetTable(out), NoErr)

\* email.split("@"): the pieces of s between the occurrences of "@"
RECURSIVE SplitAt(_)
SplitAt(s) ==
    IF \A i \in DOMAIN s : s[i] # "@" THEN <<s>>
    ELSE LET at == SetMin({i \in DOMAIN s : s[i] = "@"})
         IN <<SubSeq(s, 1, at - 1)>> \o SplitAt(SubSeq(s, at + 1, Len(s)))

\* one step of the loop of maskEmail (masking.py:75-82)
MaskEmailCell(email) ==
    IF email.k = "None" THEN CellOk(email)
    ELSE IF email.k # "str" THEN CellErr("TypeError", "masking.py:79")
    ELSE LET parts == SplitAt(email.v)
         IN IF Len(parts) # 2
            THEN \* name, domain = ...: too many / not enough values to unpack
                 CellErr("ValueError", "masking.py:81")
            ELSE LET name == parts[1]
                     domain == parts[2]
                 IN IF Len(name) = 0
                    THEN \* list(name)[0]: list index out of range
                         CellErr("IndexError", "masking.py:82")
                    ELSE CellOk(StrCell(<<name[1]>> \o Stars(Len(name) - 1) \o <<"@">> \o domain))

MaskEmail(attr) ==
    LET o == [name |-> "maskEmail", attrs |-> <<attr>>, arg |-> 0]
    IN IF attr \notin Columns(df)
       THEN Call(o, df, NoRet, Raise("KeyError", "masking.py:75"))
       ELSE LET steps == [i \in 1..NRows(df) |-> MaskEmailCell(df.data[attr][i])]
            IN IF FirstBad(steps) # 0
               THEN Call(o, ScanRaised(df, attr, steps), NoRet, FirstRaise(steps))
               ELSE \* df[attr] = cont; return df
                    LET out == SetColumn(df, attr, Cont(steps))
                    IN Call(o, out, RetTable(out), NoErr)

----------------------------------------------------------------------------
(* perturbation.py *)

\* Python's v // b on ints: the floor of the quotient, for either sign of b
TruncDivBug(v, b) ==
    IF (v >= 0) = (b > 0)
    THEN (IF v >= 0 THEN v ELSE 0 - v) \div (IF b > 0 THEN b ELSE 0 - b)
    ELSE 0 - ((IF v >= 0 THEN v ELSE 0 - v) \div (IF b > 0 THEN b ELSE 0 - b))
PyFloorDiv(v, b) == IF b > 0 THEN v \div b ELSE (0 - v) \div (0 - b)

\* isinstance(val, (int, float, np.int8, ..., np.float64))
IsNumeric(c) == c.k \in {"int", "float", "nan"}

\* one step of the loops of perturbation.py: (val // base) * base
PerturbCell(val, base, site) ==
    IF ~IsNumeric(val) THEN CellErr("TypeError", site)
    ELSE IF val.k = "nan" THEN CellOk(val)
    ELSE IF base = 0 THEN CellErr("ZeroDivisionError", site)
    ELSE IF val.k = "int" THEN CellOk(IntCell(PyFloorDiv(val.v, base) * base))
    ELSE CellOk(FloatCell(PyFloorDiv(val.v, 1000 * base) * base * 1000))

\* the common body of the four rounding functions: scan df_copy[attr],
\* then df_copy[attr] = cont; return df_copy
Perturb(o, attr, base, site) ==
    IF attr \notin Columns(df)
    THEN Call(o, df, NoRet, Raise("KeyError", site))
    ELSE LET steps == [i \in 1..NRows(df) |-> PerturbCell(df.data[attr][i], base, site)]
         IN IF FirstBad(steps) # 0
            THEN Call(o, ScanRaised(df, attr, steps), NoRet, FirstRaise(steps))
            ELSE Call(o, df, RetTable(SetColumn(df, attr, Cont(steps))), NoErr)

AgeBase == 3
WeightBase == 3
HeightBase == 5

AgePerturbation(attr) ==
    Perturb([name |-> "agePerturbation", attrs |-> <<attr>>, arg |-> AgeBase],
            attr, AgeBase, "perturbation.py:40")

WeightPerturbation(attr) ==
    Perturb([name |-> "weightPerturbation", attrs |-> <<attr>>, arg |-> WeightBase],
            attr, WeightBase, "perturbation.py:79")

HeightPerturbation(attr) ==
    Perturb([name |-> "heightPerturbation", attrs |-> <<attr>>, arg |-> HeightBase],
            attr, HeightBase, "perturbation.py:118")

DataPerturbation(attr, base_number) ==
    Perturb([name |-> "dataPerturbation", attrs |-> <<attr>>, arg |-> base_number],
            attr, base_number, "perturbation.py:160")

\* pd.api.types.is_datetime64_any_dtype(df[attr])
IsDatetimeColumn(tb, attr) == ColDtype(tb.data[attr]) = "datetime64"

\* datePerturbation: every date moved by its own random number of days in
\* -max_days..max_days; df[attr] = cont; return df
DatePerturbation(attr, max_days) ==
    LET o == [name |-> "datePerturbation", attrs |-> <<attr>>, arg |-> max_days]
    IN IF attr \notin Columns(df)
       THEN Call(o, df, NoRet, Raise("KeyError", "perturbation.py:197"))
       ELSE IF ~IsDatetimeColumn(df, attr)
       THEN Call(o, df, NoRet, Raise("TypeError", "perturbation.py:198"))
       ELSE IF max_days < 0
       THEN \* np.random.randint(low, high) with low >= high
            Call(o, df, NoRet, Raise("ValueError", "perturbation.py:201"))
       ELSE \E days_to_shift \in [1..NRows(df) -> (0 - max_days)..max_days] :
               LET cont == [i \in 1..NRows(df) |-> DateCell(df.data[attr][i].v + days_to_shift[i])]
                   out == SetColumn(df, attr, cont)
               IN Call(o, out, RetTable(out), NoErr)

----------------------------------------------------------------------------
(* generalization.py *)

\* the civil year and month of the day d days after 1970-01-01
DayOfEra(d) == (d + 719468) - ((d + 719468) \div 146097) * 146097
YearOfEra(d) ==
    (DayOfEra(d) - DayOfEra(d) \div 1460 + DayOfEra(d) \div 36524 - DayOfEra(d) \div 146096) \div 365
DayOfYear(d) ==
    DayOfEra(d) - (365 * YearOfEra(d) + YearOfEra(d) \div 4 - YearOfEra(d) \div 100)
MonthIndex(d) == (5 * DayOfYear(d) + 2) \div 153
MonthOf(d) == IF MonthIndex(d) < 10 THEN MonthIndex(d) + 3 ELSE MonthIndex(d) - 9
YearOf(d) ==
    YearOfEra(d) + ((d + 719468) \div 146097) * 400 + (IF MonthOf(d) <= 2 THEN 1 ELSE 0)

\* strftime("%Y-%m") and strftime("%Y")
Strftime(d, verbose) ==
    IF verbose
    THEN NatToStr(YearOf(d)) \o <<"-">> \o
         (IF MonthOf(d) < 10 THEN <<"0">> ELSE <<>>) \o NatToStr(MonthOf(d))
    ELSE NatToStr(YearOf(d))

DateGeneralization(attr, verbose) ==
    LET o == [name |-> "dateGeneralization", attrs |-> <<attr>>, arg |-> verbose]
    IN IF attr \notin Columns(df)
       THEN Call(o, df, NoRet, Raise("KeyError", "generalization.py:39"))
       ELSE IF ~IsDatetimeColumn(df, attr)
       THEN Call(o, df, NoRet, Raise("TypeError", "generalization.py:40"))
       ELSE LET cont == [i \in 1..NRows(df) |-> StrCell(Strftime(df.data[attr][i].v, verbose))]
            IN Call(o, df, RetTable(SetColumn(df, attr, cont)), NoErr)

\* the validation loops of meanGeneralization and dataBucketing
CheckNumeric(val, site) == IF IsNumeric(val) THEN CellOk(val) ELSE CellErr("TypeError", site)

\* a numeric cell in thousandths
Milli(c) == IF c.k = "int" THEN c.v * 1000 ELSE c.v

SetMax(S) == CHOOSE m \in S : \A x \in S : m >= x
Abs(x) == IF x < 0 THEN 0 - x ELSE x
RoundDiv(a, b) == (2 * a + b) \div (2 * b)

\* pd.cut(x, bins=n): the n + 1 edges of n equal-width bins over [min, max]
\* in thousandths, the lowest edge moved down by 0.1% of the range (both ends
\* moved by 0.1% of their size when min = max).  flo is TRUE for the edge as
\* compared with the values (rounded down), FALSE for the edge as shown in the
\* interval labels (rounded to 3 decimals, the precision of pd.cut).
CutEdge(mn, mx, n, i, flo) ==
    LET lo == IF mn = mx THEN (IF mn = 0 THEN -1 ELSE mn - RoundDiv(Abs(mn), 1000)) ELSE mn
        hi == IF mn = mx THEN (IF mx = 0 THEN 1 ELSE mx + RoundDiv(Abs(mx), 1000)) ELSE mx
        adj == IF mn = mx THEN 0 ELSE RoundDiv(mx - mn, 1000)
    IN IF i = 0 THEN lo - adj
       ELSE IF flo THEN lo + (i * (hi - lo)) \div n
       ELSE lo + RoundDiv(i * (hi - lo), n)

\* the bin (left, right] of the value t
CutBin(mn, mx, n, t) == SetMin({i \in 1..n : t <= CutEdge(mn, mx, n, i, TRUE)})

\* (i.left + i.right) // 2
BinMean(mn, mx, n, t) ==
    LET i == CutBin(mn, mx, n, t)
    IN FloatCell(((CutEdge(mn, mx, n, i - 1, FALSE) + CutEdge(mn, mx, n, i, FALSE)) \div 2000) * 1000)

MeanGeneralization(attr, bins) ==
    LET o == [name |-> "meanGeneralization", attrs |-> <<attr>>, arg |-> bins]
    IN IF attr \notin Columns(df)
       THEN Call(o, df, NoRet, Raise("KeyError", "generalization.py:82"))
       ELSE LET col == df.data[attr]
                steps == [i \in 1..NRows(df) |-> CheckNumeric(col[i], "generalization.py:84")]
                nums == {Milli(col[i]) : i \in {j \in 1..NRows(df) : col[j].k \in {"int", "float"}}}
            IN IF FirstBad(steps) # 0
               THEN Call(o, ScanRaised(df, attr, steps), NoRet, FirstRaise(steps))
               ELSE IF NRows(df) = 0 \/ bins < 1
               THEN \* pd.cut: cannot cut an empty array / bins must be positive
                    Call(o, df, NoRet, Raise("ValueError", "generalization.py:86"))
               ELSE IF nums = {}
               THEN \* every cell is NaN: pd.cut or the loop over its result fails
                    \E e \in {"ValueError", "AttributeError"} :
                        Call(o, df, NoRet, Raise(e, "generalization.py:86"))
               ELSE IF \E i \in 1..NRows(df) : col[i].k = "nan"
               THEN \* the bin of NaN is NaN, which has no .left
                    Call(o, df, NoRet, Raise("AttributeError", "generalization.py:88"))
               ELSE \* df[attr] = cont; return df
                    LET cont == [i \in 1..NRows(df) |->
                                    BinMean(SetMin(nums), SetMax(nums), bins, Milli(col[i]))]
                        out == SetColumn(df, attr, cont)
                    IN Call(o, out, RetTable(out), NoErr)

\* pd.cut(x, bins=edges, labels=labels, ordered=True): the label of the
\* interval (edges[i], edges[i+1]] holding the value, NaN when none does
BucketCell(val, bins, labels) ==
    IF val.k = "nan" THEN NaNCell
    ELSE IF \E i \in 1..(Len(bins) - 1) : bins[i] * 1000 < Milli(val) /\ Milli(val) <= bins[i + 1] * 1000
    THEN labels[CHOOSE i \in 1..(Len(bins) - 1) :
                    bins[i] * 1000 < Milli(val) /\ Milli(val) <= bins[i + 1] * 1000]
    ELSE NaNCell

\* the checks pd.cut makes on a sequence of edges and its labels
BadBucketSpec(bins, labels) ==
    \/ Len(bins) < 2
    \/ \E i \in 1..(Len(bins) - 1) : bins[i] >= bins[i + 1]
    \/ Len(labels) # Len(bins) - 1
    \/ \E i, j \in DOMAIN labels : i < j /\ labels[i] = labels[j]

DataBucketing(attr, bins, labels) ==
    LET o == [name |-> "dataBucketing", attrs |-> <<attr>>, arg |-> [bins |-> bins, labels |-> labels]]
    IN IF attr \notin Columns(df)
       THEN Call(o, df, NoRet, Raise("KeyError", "generalization.py:130"))
       ELSE LET col == df.data[attr]
                steps == [i \in 1..NRows(df) |-> CheckNumeric(col[i], "generalization.py:132")]
            IN IF FirstBad(steps) # 0
               THEN Call(o, ScanRaised(df, attr, steps), NoRet, FirstRaise(steps))
               ELSE IF BadBucketSpec(bins, labels)
               THEN Call(o, df, NoRet, Raise("ValueError", "generalization.py:134"))
               ELSE \* df[attr] = val_binned; return df
                    LET out == SetColumn(df, attr, [i \in 1..NRows(df) |-> BucketCell(col[i], bins, labels)])
                    IN Call(o, out, RetTable(out), NoErr)

----------------------------------------------------------------------------
(* suppression.py *)

\* the elements of a set of integers, ascending
RECURSIVE Ascending(_)
Ascending(S) == IF S = {} THEN <<>> ELSE <<SetMin(S)>> \o Ascending(S \ {SetMin(S)})

\* df_copy[mask]: the rows at the positions ps (ascending), labels kept
TakeRows(tb, ps) ==
    [index |-> [j \in 1..Len(ps) |-> tb.index[ps[j]]],
     data |-> [c \in Columns(tb) |-> [j \in 1..Len(ps) |-> tb.data[c][ps[j]]]]]

\* df_copy[attr].isin(ex): membership by Python equality
Isin(tb, attr, ex) ==
    {i \in 1..NRows(tb) : PyKey(tb.data[attr][i]) \in {PyKey(x) : x \in ex}}

\* df_copy = df_copy[~df_copy[attr].isin(ex)]
DropMatching(tb, attr, ex) == TakeRows(tb, Ascending((1..NRows(tb)) \ Isin(tb, attr, ex)))

\* reset_index(drop=True)
KeepIndexBug(tb) == tb
ResetIndex(tb) == [tb EXCEPT !.index = RangeIndex(NRows(tb))]

\* df.drop(columns=attrs)
DropColumns(tb, attrs) == [tb EXCEPT !.data = [c \in Columns(tb) \ Range(attrs) |-> tb.data[c]]]

\* the loop of recordSuppression (suppression.py:72-75) from its i-th pair
\* on: the table left, or the ValueError of the first absent column
RECURSIVE StopWhenEmptyBug(_, _, _, _)
StopWhenEmptyBug(tb, attr_lst, attr_ex, i) ==
    IF i > Len(attr_lst) \/ i > Len(attr_ex) \/ NRows(tb) = 0 THEN [e |-> "none", tb |-> tb]
    ELSE IF attr_lst[i] \notin Columns(tb) THEN [e |-> "ValueError", tb |-> tb]
    ELSE StopWhenEmptyBug(DropMatching(tb, attr_lst[i], attr_ex[i]), attr_lst, attr_ex, i + 1)
RECURSIVE SuppressLoop(_, _, _, _)
SuppressLoop(tb, attr_lst, attr_ex, i) ==
    IF i > Len(attr_lst) \/ i > Len(attr_ex) THEN [e |-> "none", tb |-> tb]
    ELSE IF attr_lst[i] \notin Columns(tb) THEN [e |-> "ValueError", tb |-> tb]
    ELSE SuppressLoop(DropMatching(tb, attr_lst[i], attr_ex[i]), attr_lst, attr_ex, i + 1)

\* DataFrame.empty: some axis has length 0
IsEmpty(tb) == NRows(tb) = 0 \/ Columns(tb) = {}

RecordSuppression(attr_lst, attr_ex) ==
    LET o == [name |-> "recordSuppression", attrs |-> attr_lst, arg |-> attr_ex]
    IN IF IsEmpty(df)
       THEN Call(o, df, NoRet, Raise("ValueError", "suppression.py:69"))
       ELSE IF Len(attr_lst) # Len(attr_ex)
       THEN Call(o, df, NoRet, Raise("ValueError", "suppression.py:71"))
       ELSE LET done == SuppressLoop(df, attr_lst, attr_ex, 1)
            IN IF done.e # "none"
               THEN Call(o, df, NoRet, Raise("ValueError", "suppression.py:74"))
               ELSE Call(o, df, RetTable(ResetIndex(done.tb)), NoErr)

AttributeSuppression(attrs) ==
    LET o == [name |-> "attributeSuppression", attrs |-> attrs, arg |-> 0]
    IN IF \E i \in DOMAIN attrs : attrs[i] \notin Columns(df)
       THEN \* drop raises KeyError for a label that is no column
            Call(o, df, NoRet, Raise("KeyError", "suppression.py:31"))
       ELSE Call(o, df, RetTable(DropColumns(df, attrs)), NoErr)

----------------------------------------------------------------------------
(* shuffling.py *)

\* the orders df.sample(frac=1) can put n rows in
RowOrders(n) == {f \in [1..n -> 1..n] : \A i, j \in 1..n : f[i] = f[j] => i = j}

\* df.sample(frac=1).reset_index(drop=True)
DataShuffling ==
    \E order \in RowOrders(NRows(df)) :
        Call([name |-> "dataShuffling", attrs |-> <<>>, arg |-> 0], df,
             RetTable(ResetIndex(TakeRows(df, order))), NoErr)

----------------------------------------------------------------------------
(* pseudonymization.py *)

\* the callers that may run pseudonymization at the same time (threads or
\* processes sharing the working directory)
Callers == {1, 2}

\* key_table.xlsx: absent, or the rows written by the last to_excel
NoFile == [exists |-> FALSE, rows |-> <<>>, by |-> 0]

\* the locals of one call: df_copy, attr, pseduonyms, key_table, and its outcome
LocInit == [df_copy |-> Frame(<<>>, 0), attr |-> "", pseduonyms |-> <<>>,
            key_table |-> <<>>, ret |-> NoRet, err |-> NoErr]

\* randomword(): 5 lowercase letters (one of the 26^5 words, the docstring's)
Words == {<<"x", "q", "j", "r", "t">>}

\* np.random.randint(low=100000000, high=999999999): low <= m < high
RandLow == 100000000
RandHigh == 999999999
Nums == {RandLow, RandHigh - 1}

\* srs.astype(str): the textual form of each cell
AsStr(c) ==
    IF c.k = "str" THEN c.v
    ELSE IF c.k = "int" THEN IntToStr(c.v)
    ELSE IF c.k = "float" THEN FloatToStr(c.v)
    ELSE IF c.k = "None" THEN <<"N", "o", "n", "e">>
    ELSE IF c.k = "nan" THEN <<"n", "a", "n">>
    ELSE <<"?">>

\* srs_str.nunique()
TotalUnique(srs) == Cardinality({AsStr(srs[i]) : i \in DOMAIN srs})

\* the lists generatePseudonym(srs) can return: code = n + str(m) for
\* total_unique random words n and numbers m
PseudonymBatches(srs) ==
    {[i \in 1..TotalUnique(srs) |-> StrCell(r[i][1] \o IntToStr(r[i][2]))] :
        r \in [1..TotalUnique(srs) -> Words \X Nums]}

\* pd.Series(pseduonyms).duplicated().any()
HasDuplicates(codes) == \E i, j \in DOMAIN codes : i < j /\ codes[i] = codes[j]

\* df[attr].unique(): the distinct values (by Python equality) in order of
\* first appearance
RECURSIVE Unique(_)
Unique(col) ==
    IF col = <<>> THEN <<>>
    ELSE LET front == SubSeq(col, 1, Len(col) - 1)
             x == col[Len(col)]
         IN IF \E i \in DOMAIN front : PyKey(front[i]) = PyKey(x)
            THEN Unique(front)
            ELSE Unique(front) \o <<x>>

\* .sample(frac=1.0, replace=False, random_state=122, ignore_index=True):
\* a reordering of the values (fixed by the seed and the length; any
\* reordering is allowed for here)
Reorderings(vals) ==
    {[i \in DOMAIN vals |-> vals[f[i]]] :
        f \in {g \in [DOMAIN vals -> DOMAIN vals] : \A i, j \in DOMAIN vals : g[i] = g[j] => i = j}}

\* pd.DataFrame([key, pd.Series(pseduonyms)]).T with columns NRIC, PseudoID:
\* the two series aligned on 0..n-1, NaN where one is shorter
KeyTable(key, codes) ==
    [i \in 1..(IF Len(key) > Len(codes) THEN Len(key) ELSE Len(codes)) |->
        [NRIC |-> IF i <= Len(key) THEN key[i] ELSE NaNCell,
         PseudoID |-> IF i <= Len(codes) THEN codes[i] ELSE NaNCell]]

\* dict(zip(key_table["NRIC"], key_table["PseudoID"])) looked up by .map:
\* the PseudoID of the last row whose NRIC equals x, NaN when there is none
MapCell(key_table, x) ==
    LET hits == {i \in DOMAIN key_table : PyKey(key_table[i].NRIC) = PyKey(x)}
    IN IF hits = {} THEN NaNCell
       ELSE key_table[CHOOSE i \in hits : \A j \in hits : j <= i].PseudoID

\* pseudonymization.py:86: df_copy = df.copy(), entering the while loop
PStart(c, attr) ==
    /\ pc[c] \in {"idle", "done"}
    /\ ncalls < PsMaxCalls
    /\ ncalls' = ncalls + 1
    /\ loc' = [loc EXCEPT ![c] = [LocInit EXCEPT !.df_copy = df, !.attr = attr]]
    /\ pc' = [pc EXCEPT ![c] = "GenerateCandidates"]
    /\ UNCHANGED <<df, pre, op, ret, err, file>>

\* pseudonymization.py:88: pseduonyms = generatePseudonym(df_copy[attr])
PGenerate(c) ==
    /\ pc[c] = "GenerateCandidates"
    /\ IF loc[c].attr \notin Columns(loc[c].df_copy)
       THEN /\ loc' = [loc EXCEPT ![c].err = Raise("KeyError", "pseudonymization.py:88")]
            /\ pc' = [pc EXCEPT ![c] = "done"]
            /\ op' = [name |-> "pseudonymization", attrs |-> <<loc[c].attr>>, arg |-> c]
            /\ pre' = loc[c].df_copy
            /\ ret' = NoRet
            /\ err' = Raise("KeyError", "pseudonymization.py:88")
       ELSE /\ \E batch \in PseudonymBatches(loc[c].df_copy.data[loc[c].attr]) :
                  loc' = [loc EXCEPT ![c].pseduonyms = batch]
            /\ pc' = [pc EXCEPT ![c] = "CheckUniqueness"]
            /\ UNCHANGED <<op, pre, ret, err>>
    /\ UNCHANGED <<df, ncalls, file>>

\* a check that lets every batch through
PCheckBug(c) ==
    /\ pc[c] = "CheckUniqueness"
    /\ pc' = [pc EXCEPT ![c] = "BuildMapping"]
    /\ UNCHANGED <<df, pre, op, ret, err, ncalls, loc, file>>

\* pseudonymization.py:89-90: retry while the batch holds a duplicate
PCheck(c) ==
    /\ pc[c] = "CheckUniqueness"
    /\ pc' = [pc EXCEPT ![c] = IF HasDuplicates(loc[c].pseduonyms)
                               THEN "GenerateCandidates" ELSE "BuildMapping"]
    /\ UNCHANGED <<df, pre, op, ret, err, ncalls, loc, file>>

\* pseudonymization.py:91-93: key and key_table (key reads the caller's df)
PBuild(c) ==
    /\ pc[c] = "BuildMapping"
    /\ \E key \in Reorderings(Unique(df.data[loc[c].attr])) :
          loc' = [loc EXCEPT ![c].key_table = KeyTable(key, loc[c].pseduonyms)]
    /\ pc' = [pc EXCEPT ![c] = "Persist"]
    /\ UNCHANGED <<df, pre, op, ret, err, ncalls, file>>

\* pseudonymization.py:94: key_table.to_excel("key_table.xlsx", index=False)
PPersist(c) ==
    /\ pc[c] = "Persist"
    /\ file' = [exists |-> TRUE, rows |-> loc[c].key_table, by |-> c]
    /\ pc' = [pc EXCEPT ![c] = "Apply"]
    /\ UNCHANGED <<df, pre, op, ret, err, ncalls, loc>>

\* pseudonymization.py:95-98: map the column of df_copy and return df_copy
PApply(c) ==
    /\ pc[c] = "Apply"
    /\ LET attr == loc[c].attr
           cont == [i \in 1..NRows(loc[c].df_copy) |->
                       MapCell(loc[c].key_table, loc[c].df_copy.data[attr][i])]
           out == SetColumn(loc[c].df_copy, attr, cont)
       IN /\ loc' = [loc EXCEPT ![c].ret = RetTable(out)]
          /\ ret' = RetTable(out)
          /\ op' = [name |-> "pseudonymization", attrs |-> <<attr>>, arg |-> c]
          /\ pre' = loc[c].df_copy
          /\ err' = NoErr
    /\ pc' = [pc EXCEPT ![c] = "done"]
    /\ UNCHANGED <<df, ncalls, file>>

----------------------------------------------------------------------------
(* The state before any call *)

NoOp == [name |-> "none", attrs |-> <<>>, arg |-> 0]


Idle ==
    /\ pre = df
    /\ op = NoOp
    /\ ret = NoRet
    /\ err = NoErr
    /\ ncalls = 0
    /\ pc = [c \in Callers |-> "idle"]
    /\ loc = [c \in Callers |-> LocInit]
    /\ file = NoFile

Str(w) == StrCell(w)

----------------------------------------------------------------------------
(* The k-anonymity evaluator on tables of ages and zip codes *)

KAges == {IntCell(34), IntCell(45), FloatCell(34000)}
KZips == {Str(<<"1", "2", "3", "4", "5">>), Str(<<"6", "7", "8", "9", "0">>)}
\* the quasi-identifier lists asked for ("gender" and "name" are no columns)
KQuasi ==
    {<<>>, <<"age">>, <<"zipcode">>, <<"age", "zipcode">>, <<"zipcode", "age">>,
     <<"age", "age">>, <<"gender">>, <<"age", "gender">>, <<"gender", "zipcode">>,
     <<"name", "gender">>, <<"gender", "age", "name">>}

\* the table of the docstring of calculateKAnonymity (age, zipcode)
KDocTable ==
    Frame([age |-> <<IntCell(34), IntCell(34), IntCell(45), IntCell(45), IntCell(52)>>,
           zipcode |-> <<Str(<<"1", "2", "3", "4", "5">>), Str(<<"1", "2", "3", "4", "5">>),
                         Str(<<"1", "2", "3", "4", "5">>), Str(<<"1", "2", "3", "4", "5">>),
                         Str(<<"6", "7", "8", "9", "0">>)>>], 5)

KTables ==
    {KDocTable} \cup
    UNION {{Frame(d, m) : d \in [age : [1..m -> KAges], zipcode : [1..m -> KZips]]} : m \in 0..KMaxRows}

InitK == df \in KTables /\ Idle

NextK == \E qi \in KQuasi : CalculateKAnonymity(qi)

SpecK == InitK /\ [][NextK]_vars

\* the rows of tb that carry the same quasi-identifier values as row i
SameGroup(tb, qi, i) ==
    {j \in 1..NRows(tb) : \A c \in Range(qi) : PyKey(tb.data[c][j]) = PyKey(tb.data[c][i])}

KValidCall ==
    /\ op.name = "calculateKAnonymity"
    /\ NRows(pre) > 0
    /\ Range(op.attrs) \subseteq Columns(pre)

\* C2: on a non-empty table whose quasi-identifier columns all exist,
\* calculateKAnonymity returns the size of the smallest group of rows sharing
\* one tuple of quasi-identifier values: some group has exactly that size, no
\* group is smaller, the result lies between 1 and the row count, and the
\* docstring table with ['age', 'zipcode'] gives 1.
KAnonymityIsMinGroup ==
    KValidCall =>
        /\ err = NoErr
        /\ ret.t = "int"
        /\ \E i \in 1..NRows(pre) : Cardinality(SameGroup(pre, op.attrs, i)) = ret.v
        /\ \A i \in 1..NRows(pre) : Cardinality(SameGroup(pre, op.attrs, i)) >= ret.v
        /\ ret.v >= 1 /\ ret.v <= NRows(pre)
        /\ (pre = KDocTable /\ op.attrs = <<"age", "zipcode">>) => ret.v = 1

\* C2 witness: a call on three rows with groups of sizes 2 and 1 returned 1,
\* and the docstring call is reached as well.
KTwoGroupsWitness ==
    /\ KValidCall
    /\ NRows(pre) = 3
    /\ op.attrs = <<"age", "zipcode">>
    /\ Cardinality(SameGroup(pre, op.attrs, 1)) = 2
    /\ Cardinality(SameGroup(pre, op.attrs, 3)) = 1
    /\ ret = RetInt(1)

KMissing == Range(op.attrs) \ Columns(pre)

\* C3 as stated: a missing column gives an error naming exactly the missing
\* columns, and an empty table is rejected by an explicit guard of
\* calculateKAnonymity; no k is returned in either case.
KErrorsByExplicitGuard ==
    op.name = "calculateKAnonymity" =>
        /\ KMissing # {} =>
              err.e = "ValueError" /\ err.wrg = KMissing /\ ret = NoRet
        /\ (KMissing = {} /\ NRows(pre) = 0) =>
              err.e # "none" /\ err.site = "evaluation.py:37" /\ ret = NoRet
        /\ ret.t = "int" => (KMissing = {} /\ NRows(pre) > 0)

\* C3 amended: a missing column gives the ValueError of line 37 naming exactly
\* the missing columns; an empty table whose columns all exist fails with the
\* ValueError that min() raises on the empty sequence of counts (there is no
\* guard for it in calculateKAnonymity); no k is returned in either case.
KErrorsOnInvalidInput ==
    op.name = "calculateKAnonymity" =>
        /\ KMissing # {} =>
              /\ err.e = "ValueError" /\ err.site = "evaluation.py:37"
              /\ err.wrg = KMissing /\ ret = NoRet
        /\ (KMissing = {} /\ NRows(pre) = 0) =>
              err = Raise("ValueError", "builtins.min") /\ ret = NoRet
        /\ ret.t = "int" => (KMissing = {} /\ NRows(pre) > 0)

\* C3 witness: a call that asked for one present and one absent column on a
\* table with rows failed naming the absent one only.
KMissingWitness ==
    /\ op.name = "calculateKAnonymity"
    /\ op.attrs = <<"age", "gender">>
    /\ NRows(pre) > 0
    /\ err.wrg = {"gender"}
    /\ ret = NoRet

----------------------------------------------------------------------------
(* maskID and maskEmail on tables with an identifier or an e-mail column *)

\* a second column that no call targets by its content: ages 21, 22, ...
Companion(m) == [i \in 1..m |-> IntCell(20 + i)]

MIds ==
    {NoneCell, Str(<<"S", "1", "2", "3", "4", "5", "6", "7", "A">>), IntCell(123456789),
     IntCell(-42), FloatCell(1500), NaNCell, ObjCell}

MEmails ==
    {NoneCell,
     Str(<<"a", "l", "i", "c", "e", "@", "e", "x", "a", "m", "p", "l", "e", ".", "c", "o", "m">>),
     Str(<<"a", "b", "@", "c", "@", "d">>), Str(<<"n", "o", "b", "o", "d", "y">>),
     Str(<<"@", "x">>), IntCell(7)}

MTables ==
    UNION {{Frame([NRIC |-> c, age |-> Companion(m)], m) : c \in [1..m -> MIds]} \cup
           {Frame([email |-> c, age |-> Companion(m)], m) : c \in [1..m -> MEmails]}
           : m \in 0..MMaxRows}

MAttrs == {"NRIC", "email", "age", "phone"}

InitMask == df \in MTables /\ Idle

NextMask == \E attr \in MAttrs : MaskID(attr) \/ MaskEmail(attr)

SpecMask == InitMask /\ [][NextMask]_vars

\* the textual form str(c) of a text or numeric cell
Text(c) ==
    IF c.k = "str" THEN c.v
    ELSE IF c.k = "int" THEN IntToStr(c.v)
    ELSE IF c.k = "float" THEN FloatToStr(c.v)
    ELSE <<"n", "a", "n">>

\* r is the textual form s with every character but the last 3 masked
MaskedAllButLast3(r, s) ==
    /\ r.k = "str"
    /\ Len(r.v) = Len(s)
    /\ \A j \in 1..Len(s) : r.v[j] = (IF j <= Len(s) - 3 THEN "*" ELSE s[j])

MaskIDOn(col) == op.name = "maskID" /\ op.attrs[1] \in Columns(pre) /\ col = pre.data[op.attrs[1]]

HasAt(s) == \E i \in DOMAIN s : s[i] = "@"
FirstAt(s) == SetMin({i \in DOMAIN s : s[i] = "@"})

\* C9: maskEmail splits every text cell on its first '@': when every cell is
\* None or a text with a non-empty local part before its first '@', the call
\* succeeds, None is unchanged and each text becomes the first character, one
\* '*' per remaining local-part character, then everything from the first
\* '@' on; the call fails if a cell is neither None nor text or has no '@'.
MaskEmailSplitsOnFirstAt ==
    \A col \in {pre.data[c] : c \in Columns(pre)} :
        (op.name = "maskEmail" /\ op.attrs[1] \in Columns(pre) /\ col = pre.data[op.attrs[1]]) =>
            /\ (\A i \in DOMAIN col :
                    col[i].k = "None" \/ (col[i].k = "str" /\ HasAt(col[i].v) /\ FirstAt(col[i].v) > 1)) =>
                  /\ err = NoErr /\ ret.t = "table"
                  /\ \A i \in DOMAIN col :
                        LET r == ret.v.data[op.attrs[1]][i]
                            s == col[i].v
                        IN IF col[i].k = "None" THEN r = col[i]
                           ELSE /\ r.k = "str" /\ Len(r.v) = Len(s)
                                /\ \A j \in 1..Len(s) :
                                      r.v[j] = (IF j > 1 /\ j < FirstAt(s) THEN "*" ELSE s[j])
            /\ (\E i \in DOMAIN col :
                    col[i].k \notin {"None", "str"} \/ (col[i].k = "str" /\ ~HasAt(col[i].v))) =>
                  err.e # "none" /\ ret = NoRet

----------------------------------------------------------------------------
(* The rounding functions on tables with a numeric column *)

PVals ==
    {IntCell(-7), IntCell(-1), IntCell(0), IntCell(22), IntCell(35), FloatCell(55500),
     FloatCell(-2500), NaNCell, NoneCell, Str(<<"x">>)}

\* the table of the docstring of agePerturbation
PDocTable ==
    Frame([age |-> <<IntCell(22), IntCell(27), IntCell(35), IntCell(40), IntCell(51)>>,
           name |-> <<Str(<<"a">>), Str(<<"b">>), Str(<<"c">>), Str(<<"d">>), Str(<<"e">>)>>], 5)

PTables ==
    {PDocTable} \cup
    UNION {{Frame([age |-> c, name |-> [i \in 1..m |-> Str(<<"n">>)]], m) : c \in [1..m -> PVals]}
           : m \in 0..PMaxRows}

PAttrs == {"age", "name", "weight"}
PBases == {-3, 0, 1, 4, 10}

InitPerturb == df \in PTables /\ Idle

NextPerturb ==
    \E attr \in PAttrs :
        \/ AgePerturbation(attr)
        \/ WeightPerturbation(attr)
        \/ HeightPerturbation(attr)
        \/ \E base_number \in PBases : DataPerturbation(attr, base_number)

SpecPerturb == InitPerturb /\ [][NextPerturb]_vars

PerturbNames == {"agePerturbation", "weightPerturbation", "heightPerturbation", "dataPerturbation"}

\* C10: for a base b > 0 (3 for age and weight, 5 for height, base_number
\* for dataPerturbation) every numeric value v of the column is replaced by the
\* multiple r of b with r <= v and v - r < b, negative v included (floor, not
\* truncation); agePerturbation of [22,27,35,40,51] gives [21,27,33,39,51];
\* a column with a non-numeric cell makes the call fail with a TypeError.
PerturbationFloors ==
    \A col \in {pre.data[c] : c \in Columns(pre)} :
        (/\ op.name \in PerturbNames
         /\ op.arg > 0
         /\ op.attrs[1] \in Columns(pre)
         /\ col = pre.data[op.attrs[1]]) =>
            /\ (op.name \in {"agePerturbation", "weightPerturbation"}) => op.arg = 3
            /\ (op.name = "heightPerturbation") => op.arg = 5
            /\ (\A i \in DOMAIN col : IsNumeric(col[i])) =>
                  /\ err = NoErr /\ ret.t = "table"
                  /\ \A i \in DOMAIN col :
                        LET r == ret.v.data[op.attrs[1]][i]
                            scale == IF col[i].k = "float" THEN 1000 ELSE 1
                        IN col[i].k # "nan" =>
                              /\ r.k = col[i].k
                              /\ r.v % (op.arg * scale) = 0
                              /\ r.v <= col[i].v
                              /\ col[i].v - r.v < op.arg * scale
            /\ (\E i \in DOMAIN col : ~IsNumeric(col[i])) =>
                  err.e = "TypeError" /\ ret = NoRet
            /\ (op.name = "agePerturbation" /\ pre = PDocTable /\ op.attrs[1] = "age") =>
                  ret.v.data["age"] = <<IntCell(21), IntCell(27), IntCell(33), IntCell(39), IntCell(51)>>

\* C10 witness: dataPerturbation with base 4 turned -7 into -8 and 22 into 20.
PerturbNegativeWitness ==
    /\ op.name = "dataPerturbation" /\ op.arg = 4 /\ op.attrs = <<"age">>
    /\ pre.data["age"] = <<IntCell(-7), IntCell(22)>>
    /\ ret.t = "table"
    /\ ret.v.data["age"] = <<IntCell(-8), IntCell(20)>>

----------------------------------------------------------------------------
(* recordSuppression and attributeSuppression on tables of ages and cities *)

NY == Str(<<"N", "Y">>)
LA == Str(<<"L", "A">>)
SF == Str(<<"S", "F">>)

\* the table of the docstring of recordSuppression
SDocTable ==
    Frame([age |-> <<IntCell(25), IntCell(30), IntCell(35), IntCell(40)>>,
           city |-> <<NY, LA, NY, SF>>], 4)

STables ==
    {SDocTable} \cup
    UNION {{Frame(d, m) : d \in [age : [1..m -> {IntCell(25), IntCell(30)}],
                                 city : [1..m -> {NY, SF}]]} : m \in 0..SMaxRows}

\* the (attr_lst, attr_ex) pairs asked for; "zip" is no column
SArgs ==
    {<<<<>>, <<>>>>,
     <<<<"age">>, <<{IntCell(30)}>>>>,
     <<<<"age">>, <<{}>>>>,
     <<<<"age">>, <<{IntCell(25), IntCell(30)}>>>>,
     <<<<"age">>, <<{FloatCell(25000)}>>>>,
     <<<<"city">>, <<{SF}>>>>,
     <<<<"city">>, <<{IntCell(30)}>>>>,
     <<<<"age", "city">>, <<{IntCell(30)}, {SF}>>>>,
     <<<<"city", "age">>, <<{NY}, {IntCell(25)}>>>>,
     <<<<"age", "age">>, <<{IntCell(25)}, {IntCell(30)}>>>>,
     <<<<"age", "city">>, <<{IntCell(25), IntCell(30)}, {NY}>>>>,
     <<<<"age">>, <<>>>>,
     <<<<>>, <<{IntCell(30)}>>>>,
     <<<<"age", "city">>, <<{IntCell(30)}>>>>,
     <<<<"zip">>, <<>>>>,
     <<<<"zip">>, <<{IntCell(30)}>>>>,
     <<<<"zip", "age">>, <<{}, {IntCell(30)}>>>>,
     <<<<"age", "zip">>, <<{IntCell(30)}, {SF}>>>>,
     <<<<"age", "zip">>, <<{IntCell(25), IntCell(30)}, {SF}>>>>,
     <<<<"city", "age", "zip">>, <<{NY}, {IntCell(25)}, {}>>>>}

SAttrs == {<<>>, <<"age">>, <<"city">>, <<"age", "city">>, <<"zip">>, <<"age", "zip">>}

InitSupp == df \in STables /\ Idle

NextSupp ==
    \/ \E a \in SArgs : RecordSuppression(a[1], a[2])
    \/ \E attrs \in SAttrs : AttributeSuppression(attrs)

SpecSupp == InitSupp /\ [][NextSupp]_vars

\* row i of the input has a targeted column whose value is in its exclusion set
Excluded(i) ==
    \E j \in DOMAIN op.attrs :
        PyKey(pre.data[op.attrs[j]][i]) \in {PyKey(x) : x \in op.arg[j]}

KeptRows == {i \in 1..NRows(pre) : ~Excluded(i)}

SValidCall ==
    /\ op.name = "recordSuppression"
    /\ NRows(pre) > 0
    /\ Len(op.attrs) = Len(op.arg)
    /\ Range(op.attrs) \subseteq Columns(pre)

\* C6: on a non-empty table with equal-length lists whose columns all exist,
\* recordSuppression returns exactly the rows none of whose targeted values
\* is excluded, in their original order (the k-th kept row is the k-th row of
\* the result), returned + dropped = input row count, index 0..n-1.
RecordSuppressionKeepsExactly ==
    SValidCall =>
        /\ err = NoErr /\ ret.t = "table"
        /\ Columns(ret.v) = Columns(pre)
        /\ NRows(ret.v) = Cardinality(KeptRows)
        /\ NRows(ret.v) + Cardinality({i \in 1..NRows(pre) : Excluded(i)}) = NRows(pre)
        /\ \A i \in KeptRows : \A c \in Columns(pre) :
              ret.v.data[c][Cardinality({q \in KeptRows : q <= i})] = pre.data[c][i]
        /\ \A c \in Columns(pre) : Len(ret.v.data[c]) = NRows(ret.v)
        /\ \A k \in 1..NRows(ret.v) : ret.v.index[k] = k - 1

\* C6 witness: the docstring call kept rows 1 and 3 of 4 and renumbered them.
RecordSuppressionDocWitness ==
    /\ SValidCall
    /\ pre = SDocTable
    /\ op.attrs = <<"age", "city">>
    /\ op.arg = <<{IntCell(30)}, {SF}>>
    /\ ret = RetTable(Frame([age |-> <<IntCell(25), IntCell(35)>>, city |-> <<NY, NY>>], 2))

\* C7: recordSuppression raises ValueError and returns no table exactly when
\* the table is empty, the two lists differ in length, or some named column
\* is absent (wherever it stands in the list, whatever the earlier filters
\* removed); in every other case it returns a table.
RecordSuppressionFailsExactlyWhen ==
    op.name = "recordSuppression" =>
        IF \/ NRows(pre) = 0
           \/ Len(op.attrs) # Len(op.arg)
           \/ \E j \in DOMAIN op.attrs : op.attrs[j] \notin Columns(pre)
        THEN err.e = "ValueError" /\ ret = NoRet
        ELSE err = NoErr /\ ret.t = "table"

\* C7 witness: the filter on age removed every row, and the absent column zip
\* that follows still made the call fail.
RecordSuppressionLateAbsentWitness ==
    /\ op.name = "recordSuppression"
    /\ op.attrs = <<"age", "zip">>
    /\ NRows(pre) > 0
    /\ \A i \in 1..NRows(pre) : PyKey(pre.data["age"][i]) \in {PyKey(x) : x \in op.arg[1]}
    /\ err = Raise("ValueError", "suppression.py:74")
    /\ ret = NoRet

----------------------------------------------------------------------------
(* pseudonymization by two callers sharing key_table.xlsx *)

S1 == Str(<<"S", "1">>)
T9 == Str(<<"T", "9">>)

\* columns of identifiers: the shape of the docstring example (a value
\* repeated), and object columns mixing the int 1, the str '1' and the
\* float 1.0
PsColumns ==
    {<<>>, <<S1>>, <<S1, T9, S1>>, <<T9, S1>>, <<IntCell(1), Str(<<"1">>)>>,
     <<S1, IntCell(1), Str(<<"1">>)>>, <<IntCell(1), FloatCell(1000)>>}

PsTables == {Frame([NRIC |-> c, age |-> Companion(Len(c))], Len(c)) : c \in PsColumns}

PsAttrs == {"NRIC", "email"}

InitPseudo == df \in PsTables /\ Idle

NextPseudo ==
    \E c \in Callers :
        \/ \E attr \in PsAttrs : PStart(c, attr)
        \/ PGenerate(c)
        \/ PCheck(c)
        \/ PBuild(c)
        \/ PPersist(c)
        \/ PApply(c)

SpecPseudo == InitPseudo /\ [][NextPseudo]_vars

\* caller c has returned from a call that produced a table
PReturned(c) == pc[c] = "done" /\ loc[c].ret.t = "table"

POriginal(c) == loc[c].df_copy.data[loc[c].attr]
PCoded(c) == loc[c].ret.v.data[loc[c].attr]

\* C4: within one call every cell of the column is replaced by a generated
\* code, cells holding the same original value get the same code, and cells
\* holding different original values get different codes.
PseudonymOneCodePerValue ==
    \A c \in Callers : PReturned(c) =>
        /\ \A i \in DOMAIN POriginal(c) : PCoded(c)[i] \in Range(loc[c].pseduonyms)
        /\ \A i, j \in DOMAIN POriginal(c) :
              (PyKey(POriginal(c)[i]) = PyKey(POriginal(c)[j])) <=> (PCoded(c)[i] = PCoded(c)[j])

\* C5: when the caller that wrote key_table.xlsx last has returned, the
\* artifact holds one row per distinct original value of that call's column,
\* pairing the value with the code its cells carry in the returned table.
ArtifactIsLastMapping ==
    \A c \in Callers : (PReturned(c) /\ file.exists /\ file.by = c) =>
        /\ Len(file.rows) = Cardinality({PyKey(POriginal(c)[i]) : i \in DOMAIN POriginal(c)})
        /\ \A i \in DOMAIN POriginal(c) :
              \E r \in DOMAIN file.rows :
                  /\ PyKey(file.rows[r].NRIC) = PyKey(POriginal(c)[i])
                  /\ file.rows[r].PseudoID = PCoded(c)[i]
                  /\ file.rows[r].PseudoID \in Range(loc[c].pseduonyms)

\* Every write of key_table.xlsx replaces it by the writer's whole key_table:
\* nothing of the earlier content is kept.
ArtifactOverwrittenWhole ==
    [][file' # file =>
          \E c \in Callers : pc[c] = "Persist" /\ file' = [exists |-> TRUE, rows |-> loc[c].key_table, by |-> c]]_vars

\* Two overlapping calls on the same column have both returned, and the
\* artifact, written last by caller 2, lacks a code of caller 1's table.
ArtifactDisagreesWithOtherCaller ==
    /\ PReturned(1) /\ PReturned(2)
    /\ loc[1].attr = loc[2].attr
    /\ file.by = 2
    /\ \E i \in DOMAIN PCoded(1) :
          \A r \in DOMAIN file.rows :
              ~(PyKey(file.rows[r].NRIC) = PyKey(POriginal(1)[i]) /\ file.rows[r].PseudoID = PCoded(1)[i])

----------------------------------------------------------------------------
(* Every transform, on tables with one column of mixed content *)

TCells ==
    {NoneCell, IntCell(22), IntCell(35), FloatCell(55500),
     Str(<<"S", "1", "2", "3", "4", "5", "6", "7", "A">>), Str(<<"a", "l", "@", "e", "x">>),
     DateCell(19543), ObjCell}

TTables ==
    UNION {{Frame([val |-> c, age |-> Companion(m)], m) : c \in [1..m -> TCells]} : m \in 0..TMaxRows}

TAttrs == {"val", "age", "phone"}

\* the bucket specification of the docstring of dataBucketing, and one with a
\* label missing
Label20s == Str(<<"2", "0", "s">>)
Label30s == Str(<<"3", "0", "s">>)
Label40s == Str(<<"4", "0", "-", "5", "0", "s">>)
TBuckets ==
    {[bins |-> <<20, 30, 40, 60>>, labels |-> <<Label20s, Label30s, Label40s>>],
     [bins |-> <<20, 30, 40, 60>>, labels |-> <<Label20s, Label30s>>]}

TSuppArgs ==
    {<<<<"age">>, <<{IntCell(21)}>>>>,
     <<<<"val", "age">>, <<{IntCell(22), NoneCell}, {IntCell(22)}>>>>,
     <<<<"val">>, <<>>>>,
     <<<<"val", "phone">>, <<{IntCell(22)}, {}>>>>}

Init == df \in TTables /\ Idle

Next ==
    \/ \E attr \in TAttrs :
          \/ MaskID(attr)
          \/ MaskEmail(attr)
          \/ AgePerturbation(attr)
          \/ WeightPerturbation(attr)
          \/ HeightPerturbation(attr)
          \/ \E base_number \in {0, 4} : DataPerturbation(attr, base_number)
          \/ \E max_days \in {-1, 1} : DatePerturbation(attr, max_days)
          \/ \E verbose \in BOOLEAN : DateGeneralization(attr, verbose)
          \/ \E bins \in {0, 2} : MeanGeneralization(attr, bins)
          \/ \E b \in TBuckets : DataBucketing(attr, b.bins, b.labels)
          \/ AttributeSuppression(<<attr>>)
          \/ (ncalls = 0 /\ PStart(1, attr))
    \/ \E a \in TSuppArgs : RecordSuppression(a[1], a[2])
    \/ DataShuffling
    \/ PGenerate(1)
    \/ PCheck(1)
    \/ PBuild(1)
    \/ PPersist(1)
    \/ PApply(1)

Spec == Init /\ [][Next]_vars

Transforms ==
    {"maskID", "maskEmail", "agePerturbation", "weightPerturbation", "heightPerturbation",
     "dataPerturbation", "datePerturbation", "dateGeneralization", "meanGeneralization",
     "dataBucketing", "attributeSuppression", "recordSuppression", "dataShuffling",
     "pseudonymization"}

\* C1: every transform is copy-on-write: after a successful call the caller's
\* table has the columns and cells it had before the call.
CopyOnWrite ==
    (op.name \in Transforms /\ err = NoErr /\ ret.t = "table") => df = pre

----------------------------------------------------------------------------
(* dataBucketing on numeric columns *)

BMaxRows == 2

\* values below, on, between and above the edges 20, 30, 40, 60
BVals ==
    {IntCell(10), IntCell(20), IntCell(22), IntCell(30), IntCell(35), IntCell(45),
     IntCell(60), IntCell(70), FloatCell(20500), NaNCell}

BDocTable == Frame([age |-> <<IntCell(22), IntCell(27), IntCell(35), IntCell(45), IntCell(51)>>], 5)

BTables ==
    {BDocTable} \cup UNION {{Frame([age |-> c], m) : c \in [1..m -> BVals]} : m \in 1..BMaxRows}

\* the docstring specification, one with two intervals, one with a label
\* missing and one with edges out of order
BBuckets ==
    {[bins |-> <<20, 30, 40, 60>>, labels |-> <<Label20s, Label30s, Label40s>>],
     [bins |-> <<20, 40>>, labels |-> <<Label20s>>],
     [bins |-> <<20, 30, 40, 60>>, labels |-> <<Label20s, Label30s>>],
     [bins |-> <<30, 20>>, labels |-> <<Label20s>>]}

BAttrs == {"age", "phone"}

InitBucket == df \in BTables /\ Idle

NextBucket == \E attr \in BAttrs : \E b \in BBuckets : DataBucketing(attr, b.bins, b.labels)

SpecBucket == InitBucket /\ [][NextBucket]_vars

BucketReturned ==
    /\ op.name = "dataBucketing" /\ err = NoErr /\ ret.t = "table"
    /\ op.attrs[1] \in Columns(pre)

\* value v of the input lies in the interval (e(j), e(j+1)] of the call
InBucket(v, j) == op.arg.bins[j] * 1000 < Milli(v) /\ Milli(v) <= op.arg.bins[j + 1] * 1000

\* C11: every cell of the column returned by dataBucketing is one of the
\* provided labels, label j exactly when e(j-1) < v <= e(j), for every numeric
\* input value, those on the lowest edge or outside [e0, en] included; edges
\* [20,30,40,60] with labels 20s, 30s, 40-50s map 22 to 20s, 35 to 30s and 45
\* to 40-50s.
BucketingAlwaysLabels ==
    BucketReturned =>
        \A i \in DOMAIN pre.data[op.attrs[1]] :
            LET v == pre.data[op.attrs[1]][i]
                r == ret.v.data[op.attrs[1]][i]
            IN v.k # "nan" =>
                  /\ \E j \in DOMAIN op.arg.labels : r = op.arg.labels[j]
                  /\ \A j \in DOMAIN op.arg.labels : (r = op.arg.labels[j]) <=> InBucket(v, j)

\* what dataBucketing does: a value inside some interval (e(j-1), e(j)] gets
\* label j, and a value on the lowest edge, below it or above the highest
\* edge gets NaN, which is none of the labels.
BucketingRightClosedOrMissing ==
    BucketReturned =>
        \A i \in DOMAIN pre.data[op.attrs[1]] :
            LET v == pre.data[op.attrs[1]][i]
                r == ret.v.data[op.attrs[1]][i]
            IN /\ \A j \in DOMAIN op.arg.labels : (r = op.arg.labels[j]) <=> (v.k # "nan" /\ InBucket(v, j))
               /\ (r = NaNCell) <=> (v.k = "nan" \/ \A j \in DOMAIN op.arg.labels : ~InBucket(v, j))
               /\ (pre = BDocTable /\ Len(op.arg.labels) = 3) =>
                     ret.v.data["age"] = <<Label20s, Label20s, Label30s, Label40s, Label40s>>

\* the docstring call returned, and so did a call on a value on the lowest edge
BucketDocWitness == BucketReturned /\ pre = BDocTable /\ Len(op.arg.labels) = 3

BucketLowestEdgeWitness ==
    /\ BucketReturned /\ Len(op.arg.labels) = 3
    /\ pre.data["age"] = <<IntCell(20)>> /\ ret.v.data["age"] = <<NaNCell>>

----------------------------------------------------------------------------
(* The retry loop of pseudonymization *)

\* PGenerate(c) drawing a batch that the check of line 89 accepts (or failing
\* on an absent column)
PAccepting(c) ==
    PGenerate(c) /\ (pc'[c] = "CheckUniqueness" => ~HasDuplicates(loc'[c].pseduonyms))

\* Every step of a call is eventually taken, and the random generator
\* eventually yields a duplicate-free batch to a call that keeps asking.
FairPseudo ==
    \A c \in Callers :
        /\ WF_vars(PGenerate(c))
        /\ WF_vars(PCheck(c))
        /\ WF_vars(PBuild(c))
        /\ WF_vars(PPersist(c))
        /\ WF_vars(PApply(c))
        /\ SF_vars(PAccepting(c))

\* two overlapping callers, each making one call
NextRetry ==
    \E c \in Callers :
        \/ (pc[c] = "idle" /\ \E attr \in PsAttrs : PStart(c, attr))
        \/ PGenerate(c)
        \/ PCheck(c)
        \/ PBuild(c)
        \/ PPersist(c)
        \/ PApply(c)

FairSpecPseudo == InitPseudo /\ [][NextRetry]_vars /\ FairPseudo

\* the steps alone, with no assumption on the batches drawn
WeakFairPseudo ==
    \A c \in Callers :
        /\ WF_vars(PGenerate(c))
        /\ WF_vars(PCheck(c))
        /\ WF_vars(PBuild(c))
        /\ WF_vars(PPersist(c))
        /\ WF_vars(PApply(c))

WeakFairSpecPseudo == InitPseudo /\ [][NextRetry]_vars /\ WeakFairPseudo

PAccepted(c) == pc[c] \in {"BuildMapping", "Persist", "Apply"} \/ PReturned(c)

\* the moves of one call from one position to the next
PseudoEdge(c) ==
    LET from == pc[c]
        to == pc'[c]
    IN \/ from \in {"idle", "done"} /\ to = "GenerateCandidates"
       \/ /\ from = "GenerateCandidates" /\ to = "CheckUniqueness"
          /\ loc'[c].pseduonyms \in PseudonymBatches(loc[c].df_copy.data[loc[c].attr])
          /\ loc'[c].key_table = <<>> /\ file' = file
       \/ /\ from = "GenerateCandidates" /\ to = "done"
          /\ loc[c].attr \notin Columns(loc[c].df_copy)
          /\ loc'[c].err.e = "KeyError" /\ loc'[c].ret = NoRet /\ file' = file
       \/ /\ from = "CheckUniqueness" /\ to = "GenerateCandidates"
          /\ HasDuplicates(loc[c].pseduonyms)
          /\ loc'[c].key_table = <<>> /\ file' = file
       \/ /\ from = "CheckUniqueness" /\ to = "BuildMapping"
          /\ ~HasDuplicates(loc[c].pseduonyms)
          /\ file' = file
       \/ from = "BuildMapping" /\ to = "Persist" /\ file' = file
       \/ from = "Persist" /\ to = "Apply" /\ file'.rows = loc[c].key_table
       \/ from = "Apply" /\ to = "done" /\ loc'[c].ret.t = "table" /\ file' = file

\* C12: a call goes GenerateCandidates -> CheckUniqueness -> (back to
\* GenerateCandidates with a fresh batch when the batch holds a duplicate |
\* on when it holds none) -> BuildMapping -> Persist -> Apply; the mapping
\* is built, the artifact written and a table returned only with an accepted
\* batch that has no duplicate code; and, provided a duplicate-free batch is
\* eventually drawn, every call that entered the loop eventually ends.
RetryUntilDuplicateFree ==
    /\ [](\A c \in Callers :
            /\ PAccepted(c) => ~HasDuplicates(loc[c].pseduonyms)
            /\ (loc[c].key_table # <<>>) => PAccepted(c))
    /\ [][\A c \in Callers : (pc'[c] # pc[c]) => PseudoEdge(c)]_vars
    /\ [][file' # file => \E c \in Callers : pc[c] = "Persist" /\ ~HasDuplicates(loc[c].pseduonyms)]_vars
    /\ \A c \in Callers : (pc[c] = "GenerateCandidates") ~> (pc[c] = "done")

\* C12 witness: caller 1 has returned a table from an accepted batch of two
\* codes while caller 2, whose batch held a duplicate, is back at
\* GenerateCandidates.
RetryWitness ==
    /\ PReturned(1) /\ Len(loc[1].pseduonyms) = 2
    /\ pc[2] = "GenerateCandidates" /\ HasDuplicates(loc[2].pseduonyms)

\* With no assumption on the batches drawn a call may redraw duplicates for
\* ever: termination then fails.
TerminatesWithoutLuck == \A c \in Callers : (pc[c] = "GenerateCandidates") ~> (pc[c] = "done")

----------------------------------------------------------------------------
(* Errors *)

Raising ==
    {"maskID", "maskEmail", "agePerturbation", "weightPerturbation", "heightPerturbation",
     "dataPerturbation", "datePerturbation", "dateGeneralization", "meanGeneralization",
     "dataBucketing", "recordSuppression"}

\* C13: whenever one of these transforms raises, the offending cell coming
\* after cells already transformed included, no table is returned and the
\* caller's table is as it was before the call: no cell replaced, no row
\* removed.
NoPartialResult ==
    (op.name \in Raising /\ err # NoErr) => (ret = NoRet /\ df = pre)

\* C13 witness: maskID raised on the second cell of [22, object] after it had
\* masked the first.
RaisedAfterMaskedCellWitness ==
    /\ op.name = "maskID" /\ op.attrs = <<"val">> /\ err.e = "TypeError"
    /\ NRows(pre) = 2 /\ pre.data["val"] = <<IntCell(22), ObjCell>>

\* recordSuppression raised on the absent column phone after its first pair
\* had removed the rows whose val is 22.
RaisedAfterRemovedRowWitness ==
    /\ op.name = "recordSuppression" /\ op.attrs = <<"val", "phone">> /\ err.e = "ValueError"
    /\ NRows(pre) = 2 /\ pre.data["val"][1] = IntCell(22) /\ df = pre

====
